---------------------------- MODULE Spec2Model ----------------------------
(***************************************************************************)
(* World Happiness dashboard (src/app.py): the load-time imputation, the   *)
(* clustering adapter, the three reactive.Calc views (filtered_data,       *)
(* clustered_data, searched_data) and the render callbacks that read them. *)
(*                                                                         *)
(* Numbers are exact rationals [n, d]; d = 0 is NaN (a missing cell, or    *)
(* the mean of a column with no present value, 0/0).  Strings that are     *)
(* searched are sequences of one-character strings.  A DataFrame is a      *)
(* sequence of rows, each row carrying its index label idx.                *)
(***************************************************************************)
EXTENDS Integers, Sequences, FiniteSets, TLC

\* ------------------------------------------------------------------ bounds
MaxScore == 2        \* cell values and slider positions range over 1..MaxScore
MaxRows == 2         \* rows of an input table of the direct calls
MaxTableLen == 22    \* rows of a table given to the search (more than HeadLimit)
MaxSearchLen == 2    \* characters of a search string
MaxK == 3            \* largest cluster count tried on the small tables
MaxBigK == 5         \* rows of the largest table clustered, and its largest k
MaxId == 6           \* largest cluster id given to get_cluster_names directly
MaxReads == 2        \* reads of one view counted between two input changes

\* ------------------------------------------------------- program constants
HeadLimit == 20      \* df.head(20)
MinK == 2            \* ui.input_slider("n_clusters", min=2, ...)
NamedIds == 4        \* ids 0..3 have fixed names

\* --------------------------------------------------------------- rationals
NaN == [n |-> 0, d |-> 0]

Rat(v) == [n |-> v, d |-> 1]

IsNaN(x) == x.d = 0

Abs(i) == IF i < 0 THEN -i ELSE i

RECURSIVE GCD(_, _)
GCD(a, b) == IF b = 0 THEN a ELSE GCD(b, a % b)

\* n/d in lowest terms with d > 0; anything over 0 is NaN
Norm(n, d) ==
    IF d = 0 THEN NaN
    ELSE LET s == IF d < 0 THEN -1 ELSE 1
             g == GCD(Abs(n), Abs(d))
         IN  [n |-> (s * n) \div g, d |-> (s * d) \div g]

\* x - y; NaN if either is NaN
Minus(x, y) == IF IsNaN(x) \/ IsNaN(y) THEN NaN
               ELSE Norm(x.n * y.d - y.n * x.d, x.d * y.d)

\* x >= y and x <= y as pandas compares floats: False whenever a side is NaN
Ge(x, y) == ~IsNaN(x) /\ ~IsNaN(y) /\ x.n * y.d >= y.n * x.d
Le(x, y) == ~IsNaN(x) /\ ~IsNaN(y) /\ x.n * y.d <= y.n * x.d

\* ----------------------------------------------------------------- columns
Ladder == "Ladder score"
Gdp == "Logged GDP per capita"
Social == "Social support"
Health == "Healthy life expectancy"
Freedom == "Freedom to make life choices"

\* the numeric columns of WHR2023.csv that the program names
NumCols == {Ladder, Gdp, Social, Health, Freedom}

Range(s) == {s[i] : i \in DOMAIN s}

Plus(x, y) == IF IsNaN(x) \/ IsNaN(y) THEN NaN
              ELSE Norm(x.n * y.d + y.n * x.d, x.d * y.d)

\* sum of the present (non-NaN) values of column c in rows 1..i
RECURSIVE SumPresent(_, _, _)
SumPresent(df, c, i) ==
    IF i = 0 THEN Rat(0)
    ELSE IF IsNaN(df[i].num[c]) THEN SumPresent(df, c, i - 1)
         ELSE Plus(SumPresent(df, c, i - 1), df[i].num[c])

CountPresent(df, c) == Cardinality({i \in DOMAIN df : ~IsNaN(df[i].num[c])})

\* Series.mean(): NaN values are skipped; the mean of no value is NaN
Mean(df, c) ==
    LET s == SumPresent(df, c, Len(df))
    IN  Norm(s.n, s.d * CountPresent(df, c))

\* DataFrame.fillna(value): a NaN cell takes the value given for its column
\* (and stays NaN when that value is NaN); other cells are kept
FillNa(df, cols, value) ==
    [i \in DOMAIN df |->
        [df[i] EXCEPT !.num =
            [c \in NumCols |->
                IF c \in cols /\ IsNaN(df[i].num[c]) THEN value[c]
                ELSE df[i].num[c]]]]

\* load_data(): every numeric column's missing entries become the column mean
load_data(csv) ==
    FillNa(csv, NumCols, [c \in NumCols |-> Mean(csv, c)])

\* -------------------------------------------------------------- filtering
\* filtered_data with the upper bound of the GDP range left out (< for <=)
filtered_data_fn_open(data, happiness_range, gdp_range) ==
    LET df1 == SelectSeq(data, LAMBDA r :
                   Ge(r.num[Ladder], Rat(happiness_range[1]))
                   /\ Le(r.num[Ladder], Rat(happiness_range[2])))
    IN  SelectSeq(df1, LAMBDA r :
                   Ge(r.num[Gdp], Rat(gdp_range[1]))
                   /\ Le(r.num[Gdp], Rat(gdp_range[2]))
                   /\ r.num[Gdp] # Rat(gdp_range[2]))

\* filtered_data(): two boolean-mask selections, bounds included
filtered_data_fn(data, happiness_range, gdp_range) ==
    LET df1 == SelectSeq(data, LAMBDA r :
                   Ge(r.num[Ladder], Rat(happiness_range[1]))
                   /\ Le(r.num[Ladder], Rat(happiness_range[2])))
    IN  SelectSeq(df1, LAMBDA r :
                   Ge(r.num[Gdp], Rat(gdp_range[1]))
                   /\ Le(r.num[Gdp], Rat(gdp_range[2])))

\* ----------------------------------------------------------------- search
\* str.lower() on the characters of the model's alphabet
LowerChar(ch) == CASE ch = "A" -> "a" [] ch = "B" -> "b" [] OTHER -> ch

Lower(s) == [i \in DOMAIN s |-> LowerChar(s[i])]

\* re.compile(pat): over the model's alphabet a "(" is never closed
RegexCompiles(pat) == \A i \in DOMAIN pat : pat[i] # "("

\* one pattern character against one subject character: "." is the wildcard
AtomMatches(p, ch) == p = "." \/ p = ch

\* re.search(pat, s) is not None, as Series.str.contains(pat) (regex=True) does
RegexSearch(pat, s) ==
    \E k \in 0..(Len(s) - Len(pat)) :
        \A j \in 1..Len(pat) : AtomMatches(pat[j], s[k + j])

DfHead(df, n) == SubSeq(df, 1, IF Len(df) < n THEN Len(df) ELSE n)

\* searched_data(): the result is [error, df]; error is "" on success
searched_data_fn(data, country_search) ==
    IF country_search # <<>>
    THEN LET search_term == Lower(country_search)
         IN  IF ~RegexCompiles(search_term)
             THEN [error |-> "re.error", df |-> <<>>]
             ELSE [error |-> "",
                   df |-> DfHead(SelectSeq(data, LAMBDA r :
                                  RegexSearch(search_term, Lower(r.name))),
                               HeadLimit)]
    ELSE [error |-> "", df |-> DfHead(data, HeadLimit)]

\* ------------------------------------------------------------- clustering
\* Python's None for the features argument
None == <<"None">>

\* the default of perform_clustering when features is None
DefaultFeatures == <<Ladder, Gdp, Social, Health, Freedom>>

\* the error values the library calls raise
ValueError == "ValueError"
IndexError == "IndexError"

\* StandardScaler on X = df[features].fillna(df[features].mean()): one row of
\* the matrix per row of df, one column per feature.  An entry is x - mean of
\* its column; the division by the column's standard deviation (a positive
\* factor shared by the whole column, 1 for a constant column) is left out.
StandardizedMatrix(df, features) ==
    LET X == FillNa(df, Range(features),
                    [c \in NumCols |-> Mean(df, c)])
    IN  [i \in DOMAIN df |->
            [j \in DOMAIN features |->
                Minus(X[i].num[features[j]], Mean(X, features[j]))]]

HasNaN(X) == \E i \in DOMAIN X : \E j \in DOMAIN X[i] : IsNaN(X[i][j])

\* KMeans(n_clusters, random_state=42).fit_predict(X): the labellings the
\* library can return for X.  Equal points share a label and as many labels
\* are used as there are clusters to fill; which id a group gets is the
\* library's choice.
KMeansLabels(X, n_clusters) ==
    LET n == Len(X)
        distinct == Cardinality(Range(X))
        used == IF distinct < n_clusters THEN distinct ELSE n_clusters
    IN  {l \in [1..n -> 0..(n_clusters - 1)] :
            /\ \A i, j \in 1..n : X[i] = X[j] => l[i] = l[j]
            /\ Cardinality(Range(l)) = used}

\* perform_clustering(df, n_clusters, features): the set of results the call
\* can produce, [error, clusters, X_scaled].  ValueError is raised by
\* StandardScaler for a matrix with no row or no column and by KMeans for a
\* NaN entry or fewer rows than clusters.
perform_clustering(df, n_clusters, features) ==
    LET feats == IF features = None THEN DefaultFeatures ELSE features
        X_scaled == StandardizedMatrix(df, feats)
    IN  IF Len(df) = 0 \/ Len(feats) = 0 \/ HasNaN(X_scaled)
           \/ Len(df) < n_clusters
        THEN {[error |-> ValueError, clusters |-> <<>>, X_scaled |-> <<>>]}
        ELSE {[error |-> "", clusters |-> l, X_scaled |-> X_scaled] :
                 l \in KMeansLabels(X_scaled, n_clusters)}

\* get_cluster_names with the table keyed from 1 instead of 0
get_cluster_names_from_one(cluster_id) ==
    CASE cluster_id = 1 -> "Very Happy"
      [] cluster_id = 2 -> "Happy"
      [] cluster_id = 3 -> "Moderate"
      [] cluster_id = 4 -> "Struggling"
      [] OTHER -> "Cluster " \o ToString(cluster_id)

\* get_cluster_names(cluster_id): dict lookup with a formatted default
get_cluster_names(cluster_id) ==
    CASE cluster_id = 0 -> "Very Happy"
      [] cluster_id = 1 -> "Happy"
      [] cluster_id = 2 -> "Moderate"
      [] cluster_id = 3 -> "Struggling"
      [] OTHER -> "Cluster " \o ToString(cluster_id)

\* feature_map of clustered_data, as a function on its keys
feature_map ==
    [f \in {"ladder", "gdp", "social", "health", "freedom"} |->
        CASE f = "ladder" -> Ladder
          [] f = "gdp" -> Gdp
          [] f = "social" -> Social
          [] f = "health" -> Health
          [] OTHER -> Freedom]

\* clustered_data falling back to the five default columns of
\* perform_clustering instead of the ladder score alone
SelectedFeaturesWide(cluster_features) ==
    LET known == SelectSeq(cluster_features,
                           LAMBDA f : f \in DOMAIN feature_map)
        selected_features == [i \in DOMAIN known |-> feature_map[known[i]]]
    IN  IF selected_features = <<>> THEN DefaultFeatures
        ELSE selected_features

\* the list comprehension of clustered_data and its fallback
SelectedFeatures(cluster_features) ==
    LET known == SelectSeq(cluster_features,
                           LAMBDA f : f \in DOMAIN feature_map)
        selected_features == [i \in DOMAIN known |-> feature_map[known[i]]]
    IN  IF selected_features = <<>> THEN <<Ladder>> ELSE selected_features

\* the body of clustered_data() given the value read from filtered_data():
\* the set of results it can produce, [error, df, X_scaled, selected_features]
clustered_data_fn(filtered, n_clusters, cluster_features) ==
    LET selected_features == SelectedFeatures(cluster_features)
    IN  {IF pc.error # ""
         THEN [error |-> pc.error, df |-> <<>>, X_scaled |-> <<>>,
               selected_features |-> selected_features]
         ELSE [error |-> "",
               df |-> [i \in DOMAIN filtered |->
                          [idx |-> filtered[i].idx,
                           name |-> filtered[i].name,
                           num |-> filtered[i].num,
                           Cluster |-> pc.clusters[i],
                           Cluster_Name |-> get_cluster_names(pc.clusters[i])]],
               X_scaled |-> pc.X_scaled,
               selected_features |-> selected_features] :
         pc \in perform_clustering(filtered, n_clusters, selected_features)}

\* X_scaled[:, j] (j counted from 0)
Column(X, j) == [i \in DOMAIN X |-> X[i][j + 1]]

Shape1(X) == IF Len(X) = 0 THEN 0 ELSE Len(X[1])

\* ------------------------------------------------------- render callbacks
\* cluster_3d_plot() given what its read of clustered_data() produced: an
\* error of the view is raised again by the read; indexing a column the
\* matrix does not have raises IndexError
cluster_3d_plot_fn(cd, n_clusters) ==
    LET failed(e) == [error |-> e, x |-> <<>>, y |-> <<>>, z |-> <<>>,
                      color |-> <<>>, text |-> <<>>, k |-> n_clusters]
    IN  IF cd.error # "" THEN failed(cd.error)
        ELSE IF Shape1(cd.X_scaled) < 2 THEN failed(IndexError)
        ELSE [error |-> "",
              x |-> Column(cd.X_scaled, 0),
              y |-> Column(cd.X_scaled, 1),
              z |-> IF Shape1(cd.X_scaled) > 2 THEN Column(cd.X_scaled, 2)
                    ELSE Column(cd.X_scaled, 0),
              color |-> [i \in DOMAIN cd.df |-> cd.df[i].Cluster],
              text |-> [i \in DOMAIN cd.df |-> cd.df[i].name],
              k |-> n_clusters]

\* cluster_table(): one summary line per cluster id present, in id order
\* (name and count; the formatted average and the top-3 list are left out)
RECURSIVE SortedIds(_)
SortedIds(ids) ==
    IF ids = {} THEN <<>>
    ELSE LET m == CHOOSE a \in ids : \A b \in ids : a <= b
         IN  <<m>> \o SortedIds(ids \ {m})

cluster_table_fn(cd) ==
    IF cd.error # "" THEN [error |-> cd.error, rows |-> <<>>]
    ELSE LET ids == SortedIds({cd.df[i].Cluster : i \in DOMAIN cd.df})
         IN  [error |-> "",
              rows |-> [j \in DOMAIN ids |->
                  [Cluster |-> get_cluster_names(ids[j]),
                   Count |-> Cardinality({i \in DOMAIN cd.df :
                                             cd.df[i].Cluster = ids[j]})]]]

\* scatter_plot(): one trace per selected factor over the filtered rows
scatter_plot_fn(df, factor_select) ==
    [error |-> "",
     traces |-> SelectSeq(<<"gdp", "social", "health">>,
                          LAMBDA f : f \in factor_select),
     idx |-> [i \in DOMAIN df |-> df[i].idx]]

\* data_table(): the searched rows, projected on the listed columns
data_table_fn(sd) ==
    IF sd.error # "" THEN [error |-> sd.error, rows |-> <<>>]
    ELSE [error |-> "",
          rows |-> [i \in DOMAIN sd.df |->
                       [name |-> sd.df[i].name, num |-> sd.df[i].num]]]

\* ------------------------------------------- inputs of the direct calls
Cells == {NaN} \cup {Rat(v) : v \in 1..MaxScore}

\* slider positions: a pair (lo, hi) with lo <= hi
Ranges == {<<lo, hi>> : lo \in 1..MaxScore, hi \in 1..MaxScore} \cap
          {r \in (1..MaxScore) \X (1..MaxScore) : r[1] <= r[2]}

CsvRow(i, nm, l, g) ==
    [idx |-> i - 1, name |-> nm,
     num |-> [c \in NumCols |->
                 IF c = Ladder THEN l ELSE IF c = Gdp THEN g ELSE Rat(1)]]

\* raw tables as read_csv returns them: up to MaxRows rows, the ladder score
\* and the GDP of each row present or missing
CsvTables ==
    UNION {{[i \in 1..n |-> CsvRow(i, <<"a">>, l[i], g[i])] :
               l \in [1..n -> Cells], g \in [1..n -> Cells]} : n \in 0..MaxRows}

CountryNames == {<<"A", "b">>, <<"b", "a">>, <<"b">>, <<"a", ".">>}

SearchChars == {"a", "A", ".", "("}

SearchStrings == UNION {[1..n -> SearchChars] : n \in 0..MaxSearchLen}

\* raw tables for the search: n rows whose names repeat a block of names
NameBlocks == UNION {[1..n -> CountryNames] : n \in 1..2}

SearchTable(block, n) ==
    [i \in 1..n |->
        CsvRow(i, block[((i - 1) % Len(block)) + 1], Rat(1), Rat(1))]

\* tables a filtered view can hold: loaded tables filtered by the widest ranges
FilteredTables ==
    {filtered_data_fn(load_data(csv), <<1, MaxScore>>, <<1, MaxScore>>) :
        csv \in CsvTables}

\* values of the cluster_features input: tuples in the order of the UI's
\* choices; "unknown" stands for an identifier feature_map does not have
FeatureInputs ==
    {SelectSeq(<<"ladder", "gdp", "social", "unknown">>, LAMBDA f : f \in S) :
        S \in SUBSET {"ladder", "gdp", "social", "unknown"}}

\* a table of n countries with the ladder scores 1..n
BigTable(n) == [i \in 1..n |-> CsvRow(i, <<"a">>, Rat(i), Rat(1))]

\* the (filtered table, cluster count, feature selection) triples tried on the
\* body of clustered_data: every small table with every selection, and the
\* largest table with every cluster count up to MaxBigK
ClusterCases ==
    (FilteredTables \X (MinK..MaxK) \X FeatureInputs)
    \cup ({BigTable(MaxBigK)} \X (MinK..MaxBigK) \X {<<"ladder">>})

FeatureArgs == {None, <<>>, <<Ladder>>, <<Gdp>>, <<Ladder, Gdp>>,
                <<Ladder, Gdp, Social>>}

\* ------------------------------------------------------ reactive session
\* raw tables of a session: three countries with one social-support entry
\* missing, and two countries whose social-support column is empty
SRow(i, nm, l, g, sc) ==
    [idx |-> i - 1, name |-> nm,
     num |-> [c \in NumCols |->
                 IF c = Ladder THEN Rat(l) ELSE IF c = Gdp THEN Rat(g)
                 ELSE IF c = Social THEN sc ELSE Rat(1)]]

SessionCsvTables ==
    {<<SRow(1, <<"A", "b">>, 1, 1, Rat(1)), SRow(2, <<"b", "a">>, 2, 1, Rat(2)),
       SRow(3, <<"b">>, 2, 2, NaN)>>,
     <<SRow(1, <<"A", "b">>, 1, 1, NaN), SRow(2, <<"a", ".">>, 2, 2, NaN)>>}

\* values the session's inputs take: slider pairs, and the first 0 to 3
\* boxes ticked of the clustering features
SessionHappinessRanges == {<<1, 1>>, <<1, 2>>, <<2, 2>>}

SessionGdpRanges == {<<1, 1>>, <<1, 2>>}

SessionFeatures == {<<>>, <<"ladder">>, <<"ladder", "gdp">>,
                    <<"ladder", "gdp", "social">>}

SessionSearches == {<<>>, <<"a">>, <<"(">>}

SessionFactors == {{}, {"gdp"}}

Views == {"filtered_data", "clustered_data", "searched_data"}

Outputs == {"scatter_plot", "cluster_3d_plot", "cluster_table", "data_table"}

InputNames == {"happiness_range", "gdp_range", "factor_select", "n_clusters",
               "cluster_features", "country_search"}

InputValues(name) ==
    CASE name = "happiness_range" -> SessionHappinessRanges
      [] name = "gdp_range" -> SessionGdpRanges
      [] name = "factor_select" -> SessionFactors
      [] name = "n_clusters" -> MinK..MaxK
      [] name = "cluster_features" -> SessionFeatures
      [] OTHER -> SessionSearches

VARIABLES
    data,         \* the module-level table, data = load_data()
    input,        \* the session's input values
    invalidated,  \* per view: it must run again before its value is used
    cache,        \* per view: <<>> or <<the result of its last run>>
    pending,      \* per output: it is invalidated and waits to be rendered
    out,          \* per output: <<>> or <<what it rendered last>>
    stack,        \* per output: the frames of its execution, innermost last
    execs,        \* per view: runs since an upstream input last changed
    reads,        \* per view: reads since an upstream input last changed
    call          \* the last direct call of a module-level function

vars == <<data, input, invalidated, cache, pending, out, stack, execs, reads,
          call>>

sessionVars == <<data, input, invalidated, cache, pending, out, stack, execs,
                 reads>>

\* clustered_data reading the cluster count without depending on it
ReadsIsolatedK(node) ==
    CASE node = "filtered_data" -> {"happiness_range", "gdp_range"}
      [] node = "clustered_data" -> {"filtered_data", "cluster_features"}
      [] node = "searched_data" -> {"country_search"}
      [] node = "scatter_plot" -> {"filtered_data", "factor_select"}
      [] node = "cluster_3d_plot" -> {"clustered_data", "n_clusters"}
      [] node = "cluster_table" -> {"clustered_data"}
      [] OTHER -> {"searched_data"}

\* the reactive sources each function body reads (input.x() and view() calls)
Reads(node) ==
    CASE node = "filtered_data" -> {"happiness_range", "gdp_range"}
      [] node = "clustered_data" ->
            {"filtered_data", "cluster_features", "n_clusters"}
      [] node = "searched_data" -> {"country_search"}
      [] node = "scatter_plot" -> {"filtered_data", "factor_select"}
      [] node = "cluster_3d_plot" -> {"clustered_data", "n_clusters"}
      [] node = "cluster_table" -> {"clustered_data"}
      [] OTHER -> {"searched_data"}

\* the view a function body reads, if any (each reads at most one)
ViewRead(node) == Reads(node) \cap Views

\* invalidation that stops at the first reader: a view that changes does not
\* invalidate the views and outputs that read it
DownstreamDirect(src) == {n \in Views \cup Outputs : src \in Reads(n)}

\* nodes whose last run read src, directly or through a view
RECURSIVE Downstream(_)
Downstream(src) ==
    LET direct == {n \in Views \cup Outputs : src \in Reads(n)}
    IN  direct \cup UNION {Downstream(n) : n \in direct \cap Views}

\* the number of running executions of view v (frames of v on the stacks)
InFlight(v) ==
    Cardinality(UNION {{<<o, i>> : i \in {j \in DOMAIN stack[o] :
                                            stack[o][j].node = v}} :
                       o \in Outputs})

\* a plain function in place of a reactive.Calc: every read runs it
NeedsRunAlways(v) == TRUE

\* reactive.Calc: the function runs on a read only when the view has been
\* invalidated (or is running); otherwise the read returns the stored result
NeedsRun(v) == invalidated[v] \/ InFlight(v) > 0

\* the reactive flush runs the render functions one after another, each to
\* completion (they are plain def functions): one starts only when none runs
EventLoopIdle == \A o \in Outputs : stack[o] = <<>>

\* render functions started while another one is still running
CanStartThreaded(o) == pending[o] /\ stack[o] = <<>>

CanStart(o) == pending[o] /\ EventLoopIdle

Bump(n) == IF n < MaxReads THEN n + 1 ELSE n

\* what a run of view v can return, given the value `got` it read upstream
Compute(v, got) ==
    CASE v = "filtered_data" ->
            {[error |-> "",
              df |-> filtered_data_fn(data, input.happiness_range,
                                      input.gdp_range)]}
      [] v = "clustered_data" ->
            clustered_data_fn(got[1].df, input.n_clusters,
                              input.cluster_features)
      [] OTHER -> {searched_data_fn(data, input.country_search)}

\* what output o renders, given the value `got` it read from its view
Render(o, got) ==
    CASE o = "scatter_plot" -> scatter_plot_fn(got[1].df, input.factor_select)
      [] o = "cluster_3d_plot" -> cluster_3d_plot_fn(got[1], input.n_clusters)
      [] o = "cluster_table" -> cluster_table_fn(got[1])
      [] OTHER -> data_table_fn(got[1])

\* the columns a body writes into the DataFrame its name df is bound to
\* (df['Cluster'] = ..., df['Cluster_Name'] = ...); every other statement
\* of the bodies builds a new object (boolean indexing, head, [cols])
InPlaceColumns(node) ==
    IF node = "clustered_data" THEN {"Cluster", "Cluster_Name"} ELSE {}

\* the views working on the object they read, as the render functions do
\* (df = filtered_data() in place of df = filtered_data().copy())
OwnsItsFrameShared(node) == FALSE

\* whether the body's df is an object of its own: the views start from
\* .copy() of what they read, the render functions keep the object itself
OwnsItsFrame(node) == node \in Views

\* the content, once the body of node has run with result r, of the
\* DataFrame src it read: a write through a shared object shows in src
SourceAfter(node, src, r) ==
    IF OwnsItsFrame(node) \/ InPlaceColumns(node) = {} \/ r.error # ""
    THEN src
    ELSE r.df

\* the stored results after the body of node has run on what it read
CacheAfter(node, r) ==
    [w \in Views |->
        IF w \in ViewRead(node) /\ cache[w] # <<>>
        THEN <<[cache[w][1] EXCEPT !.df = SourceAfter(node, @, r)]>>
        ELSE cache[w]]

\* the module-level table after the body of node has run (the views that
\* read no other view start from data)
DataAfter(node, r) ==
    IF node \in Views /\ ViewRead(node) = {} THEN SourceAfter(node, data, r)
    ELSE data

Frame(node) == [node |-> node, got |-> <<>>]

Top(o) == stack[o][Len(stack[o])]

SessionInitOn(csv) ==
    /\ data = load_data(csv)
    /\ input = [happiness_range |-> <<1, 1>>,
                gdp_range |-> <<1, 1>>,
                factor_select |-> {"gdp"},
                n_clusters |-> MaxK,
                cluster_features |-> <<"ladder", "gdp">>,
                country_search |-> <<>>]
    /\ invalidated = [v \in Views |-> TRUE]
    /\ cache = [v \in Views |-> <<>>]
    /\ pending = [o \in Outputs |-> TRUE]
    /\ out = [o \in Outputs |-> <<>>]
    /\ stack = [o \in Outputs |-> <<>>]
    /\ execs = [v \in Views |-> 0]
    /\ reads = [v \in Views |-> 0]

Init ==
    /\ \E csv \in SessionCsvTables : SessionInitOn(csv)
    /\ call = [fn |-> "none"]

\* an input message from the browser: the value changes and everything that
\* read the old value is invalidated
SetInput ==
    /\ EventLoopIdle
    /\ \E name \in InputNames : \E v \in InputValues(name) :
         /\ v # input[name]
         /\ input' = [input EXCEPT ![name] = v]
         /\ LET hit == Downstream(name)
            IN  /\ invalidated' = [w \in Views |->
                                     invalidated[w] \/ w \in hit]
                /\ cache' = [w \in Views |->
                                IF w \in hit THEN <<>> ELSE cache[w]]
                /\ pending' = [o \in Outputs |-> pending[o] \/ o \in hit]
                /\ out' = [o \in Outputs |->
                              IF o \in hit THEN <<>> ELSE out[o]]
                /\ execs' = [w \in Views |->
                                IF w \in hit THEN 0 ELSE execs[w]]
                /\ reads' = [w \in Views |->
                                IF w \in hit THEN 0 ELSE reads[w]]
    /\ UNCHANGED <<data, stack, call>>

\* the value the innermost frame works on: the one a callee handed back, the
\* stored one when its view needs no run, nothing when it reads no view
Available(f) ==
    IF f.got # <<>> \/ ViewRead(f.node) = {} THEN {f.got}
    ELSE {cache[v] : v \in {w \in ViewRead(f.node) : ~NeedsRun(w)}}

\* a function body reaches its read of a view that must run: the view's
\* function starts.  The reader is the innermost frame of a running output,
\* or an invalidated output the flush starts now (the read is the first
\* statement of every render function).
CallView ==
    \E o \in Outputs :
       LET starting == stack[o] = <<>>
           frames == IF starting THEN <<Frame(o)>> ELSE stack[o]
           f == frames[Len(frames)]
       IN  /\ starting => CanStart(o)
           /\ f.got = <<>>
           /\ \E v \in ViewRead(f.node) :
                /\ NeedsRun(v)
                /\ stack' = [stack EXCEPT ![o] = Append(frames, Frame(v))]
                /\ invalidated' = [invalidated EXCEPT ![v] = FALSE]
                /\ execs' = [execs EXCEPT ![v] = Bump(@)]
           /\ UNCHANGED <<data, input, cache, pending, out, reads, call>>

\* a view's function returns (or raises): the result is stored and handed to
\* the frame that read the view
ReturnView ==
    \E o \in Outputs :
       /\ Len(stack[o]) >= 2
       /\ Top(o).node \in Views
       /\ \E got \in Available(Top(o)) : \E r \in Compute(Top(o).node, got) :
            LET v == Top(o).node
                n == Len(stack[o])
            IN  /\ cache' = [CacheAfter(v, r) EXCEPT ![v] = <<r>>]
                /\ data' = DataAfter(v, r)
                /\ stack' = [stack EXCEPT ![o] =
                               [SubSeq(@, 1, n - 1) EXCEPT ![n - 1].got = <<r>>]]
                /\ reads' = [w \in Views |->
                                IF w \in ViewRead(v) THEN Bump(reads[w])
                                ELSE reads[w]]
       /\ UNCHANGED <<input, invalidated, pending, out, execs, call>>

\* a render function returns (or raises): the output shows the result.  An
\* output whose view needs no run is rendered in one step from the stored
\* result.
FinishRender ==
    \E o \in Outputs :
       LET starting == stack[o] = <<>>
           f == IF starting THEN Frame(o) ELSE stack[o][1]
       IN  /\ starting => CanStart(o)
           /\ Len(stack[o]) <= 1
           /\ \E got \in Available(f) :
                /\ out' = [out EXCEPT ![o] = <<Render(o, got)>>]
                /\ cache' = CacheAfter(o, Render(o, got))
                /\ data' = DataAfter(o, Render(o, got))
                /\ pending' = [pending EXCEPT ![o] = FALSE]
                /\ stack' = [stack EXCEPT ![o] = <<>>]
                /\ reads' = [w \in Views |->
                                IF w \in ViewRead(o) THEN Bump(reads[w])
                                ELSE reads[w]]
           /\ UNCHANGED <<input, invalidated, execs, call>>

Next == SetInput \/ CallView \/ ReturnView \/ FinishRender

Spec == Init /\ [][Next]_vars

\* ---------------------------------------------------------- direct calls
\* a direct call starts from a session that has not begun
InitFn ==
    /\ SessionInitOn(CHOOSE csv \in SessionCsvTables : Len(csv) = 3)
    /\ call = [fn |-> "none"]

CallLoadData ==
    /\ call.fn = "none"
    /\ UNCHANGED sessionVars
    /\ \E csv \in CsvTables :
         call' = [fn |-> "load_data", csv |-> csv, result |-> load_data(csv)]

CallFilteredData ==
    /\ call.fn = "none"
    /\ UNCHANGED sessionVars
    /\ \E csv \in CsvTables, hr \in Ranges, gr \in Ranges :
         call' = [fn |-> "filtered_data", data |-> load_data(csv),
                  happiness_range |-> hr, gdp_range |-> gr,
                  result |-> filtered_data_fn(load_data(csv), hr, gr)]

CallSearchedData ==
    /\ call.fn = "none"
    /\ UNCHANGED sessionVars
    /\ \E block \in NameBlocks, n \in 0..MaxTableLen, s \in SearchStrings :
         LET tbl == load_data(SearchTable(block, n))
         IN  call' = [fn |-> "searched_data", data |-> tbl,
                      country_search |-> s,
                      result |-> searched_data_fn(tbl, s)]

CallPerformClustering ==
    /\ call.fn = "none"
    /\ UNCHANGED sessionVars
    /\ \E df \in FilteredTables, k \in MinK..MaxK, features \in FeatureArgs :
         \E r \in perform_clustering(df, k, features) :
            call' = [fn |-> "perform_clustering", df |-> df, n_clusters |-> k,
                     features |-> features, result |-> r]

CallClusteredData ==
    /\ call.fn = "none"
    /\ UNCHANGED sessionVars
    /\ \E c \in ClusterCases : \E r \in clustered_data_fn(c[1], c[2], c[3]) :
         call' = [fn |-> "clustered_data", filtered |-> c[1],
                  n_clusters |-> c[2], cluster_features |-> c[3],
                  result |-> r]

CallGetClusterNames ==
    /\ call.fn = "none"
    /\ UNCHANGED sessionVars
    /\ \E id \in 0..MaxId :
         call' = [fn |-> "get_cluster_names", cluster_id |-> id,
                  result |-> get_cluster_names(id)]

NextFn ==
    \/ CallLoadData
    \/ CallFilteredData
    \/ CallSearchedData
    \/ CallPerformClustering
    \/ CallClusteredData
    \/ CallGetClusterNames

SpecFn == InitFn /\ [][NextFn]_vars

\* ======================================================= the claims
\* x lies in the closed interval [lo, hi]
Within(x, lo, hi) == ~IsNaN(x) /\ lo * x.d <= x.n /\ x.n <= hi * x.d

RowInRanges(r, hr, gr) ==
    /\ Within(r.num[Ladder], hr[1], hr[2])
    /\ Within(r.num[Gdp], gr[1], gr[2])

\* s is a subsequence of t: the rows of s are rows of t, in t's order
IsOrderedSubset(s, t) ==
    /\ Range(s) \subseteq Range(t)
    /\ \A i, j \in DOMAIN s : i < j => s[i].idx < s[j].idx

\* C1: the filtered table holds exactly the base rows whose ladder score and
\* logged GDP both lie in their closed range: every filtered row satisfies
\* both ranges and every base row left out violates one of them.
C1_FilterExact ==
    call.fn = "filtered_data" =>
        /\ IsOrderedSubset(call.result, call.data)
        /\ \A r \in Range(call.data) :
              r \in Range(call.result)
                 <=> RowInRanges(r, call.happiness_range, call.gdp_range)

\* a filter call that keeps a row lying on a bound of each range and drops
\* another row
C1_Witness ==
    /\ call.fn = "filtered_data"
    /\ Len(call.result) >= 1
    /\ Len(call.result) < Len(call.data)
    /\ call.happiness_range[1] < call.happiness_range[2]
    /\ \E r \in Range(call.result) :
          /\ r.num[Ladder] = Rat(call.happiness_range[2])
          /\ r.num[Gdp] = Rat(call.gdp_range[1])

\* t occurs in s as a literal substring
IsSubstring(t, s) ==
    \E k \in 0..(Len(s) - Len(t)) : \A j \in 1..Len(t) : t[j] = s[k + j]

NameContains(r, search) == IsSubstring(Lower(search), Lower(r.name))

\* C2: the searched table holds only rows whose country name contains the
\* search string as a literal substring, case-insensitively; it is the first
\* 20 such rows in base order; for the empty string it is the first 20 rows.
C2_SearchLiteral ==
    call.fn = "searched_data" =>
        /\ call.result.error = ""
        /\ Len(call.result.df) <= HeadLimit
        /\ \A r \in Range(call.result.df) : NameContains(r, call.country_search)
        /\ call.result.df =
              DfHead(SelectSeq(call.data,
                        LAMBDA r : NameContains(r, call.country_search)),
                     HeadLimit)
        /\ call.country_search = <<>> =>
              call.result.df = DfHead(call.data, HeadLimit)

KnownFeatureIds == {"ladder", "gdp", "social", "health", "freedom"}

NoKnownFeature(cf) == \A i \in DOMAIN cf : cf[i] \notin KnownFeatureIds

\* C7 as stated: with no clustering feature supplied the single column
\* "Ladder score" is clustered, by clustered_data (empty selection, or no
\* known identifier in it) and by perform_clustering called without features.
C7_SingleDefaultEverywhere ==
    /\ (call.fn = "clustered_data" /\ NoKnownFeature(call.cluster_features)) =>
          /\ call.result.selected_features = <<Ladder>>
          /\ call.result.error = "" =>
                call.result.X_scaled
                   = StandardizedMatrix(call.filtered, <<Ladder>>)
    /\ (call.fn = "perform_clustering" /\ call.features = None
        /\ call.result.error = "") =>
          call.result.X_scaled = StandardizedMatrix(call.df, <<Ladder>>)

\* C7 amended: clustered_data falls back to the single column "Ladder score";
\* perform_clustering called without features clusters its own five default
\* columns.
C7_FallbackPerCaller ==
    /\ (call.fn = "clustered_data" /\ NoKnownFeature(call.cluster_features)) =>
          /\ call.result.selected_features = <<Ladder>>
          /\ call.result.error = "" =>
                call.result.X_scaled
                   = StandardizedMatrix(call.filtered, <<Ladder>>)
    /\ (call.fn = "perform_clustering" /\ call.features = None
        /\ call.result.error = "") =>
          call.result.X_scaled
             = StandardizedMatrix(call.df,
                  <<Ladder, Gdp, Social, Health, Freedom>>)

\* perform_clustering called without features on a table whose GDP column
\* varies: the matrix has five columns and the second is not constant
C7_Witness ==
    /\ call.fn = "perform_clustering"
    /\ call.features = None
    /\ call.result.error = ""
    /\ Shape1(call.result.X_scaled) = 5
    /\ \E i \in DOMAIN call.result.X_scaled :
          call.result.X_scaled[i][2] # Rat(0)

ExpectedName(id) ==
    IF id \in 0..(NamedIds - 1)
    THEN <<"Very Happy", "Happy", "Moderate", "Struggling">>[id + 1]
    ELSE "Cluster " \o ToString(id)

\* C9: the cluster label is a positional lookup: 0..3 give "Very Happy",
\* "Happy", "Moderate", "Struggling", any other id N gives "Cluster N", and
\* each clustered row's Cluster_Name is the lookup of its own Cluster.
C9_PositionalLabels ==
    /\ call.fn = "get_cluster_names" =>
          call.result = ExpectedName(call.cluster_id)
    /\ (call.fn = "clustered_data" /\ call.result.error = "") =>
          \A i \in DOMAIN call.result.df :
             /\ call.result.df[i].Cluster \in 0..(call.n_clusters - 1)
             /\ call.result.df[i].Cluster_Name
                   = ExpectedName(call.result.df[i].Cluster)

\* a clustered table with a row in cluster 0 and a row in cluster 4
C9_Witness ==
    /\ call.fn = "clustered_data"
    /\ call.result.error = ""
    /\ \E i, j \in DOMAIN call.result.df :
          /\ call.result.df[i].Cluster = 0
          /\ call.result.df[i].Cluster_Name = "Very Happy"
          /\ call.result.df[j].Cluster = 4
          /\ call.result.df[j].Cluster_Name = "Cluster 4"

\* C10: after load_data no numeric attribute of any row is missing: each
\* missing entry was replaced by the mean of its column's present values,
\* whatever the input table.
C10_NoMissingAfterLoad ==
    call.fn = "load_data" =>
        \A i \in DOMAIN call.result : \A c \in NumCols :
           /\ ~IsNaN(call.result[i].num[c])
           /\ IsNaN(call.csv[i].num[c]) =>
                 call.result[i].num[c] = Mean(call.csv, c)

\* ------------------------------------------------- claims on the session
\* the state of a derived view
Status(v) ==
    IF InFlight(v) > 0 THEN "Computing"
    ELSE IF invalidated[v] THEN "Stale"
    ELSE IF cache[v] # <<>> /\ cache[v][1].error # "" THEN "Error"
    ELSE "Cached"

\* the raw inputs upstream of each view
UpstreamInputs(v) ==
    CASE v = "filtered_data" -> {"happiness_range", "gdp_range"}
      [] v = "clustered_data" ->
            {"happiness_range", "gdp_range", "n_clusters", "cluster_features"}
      [] OTHER -> {"country_search"}

\* C3: between two changes of a view's upstream inputs the view's function
\* runs at most once, and exactly once if the view was read at all: the first
\* read computes, later reads return the stored result.
C3_Memoization ==
    \A v \in Views :
       /\ execs[v] <= 1
       /\ reads[v] >= 1 => execs[v] = 1

\* every view has been read as often as its readers allow since the last
\* change (filtered_data and clustered_data twice) and has run once
C3_Witness ==
    /\ reads["filtered_data"] >= 2 /\ execs["filtered_data"] = 1
    /\ reads["clustered_data"] >= 2 /\ execs["clustered_data"] = 1
    /\ reads["searched_data"] >= 1 /\ execs["searched_data"] = 1
    /\ input.happiness_range # <<1, 1>>

\* the results clustered_data can return for the current values of its four
\* upstream inputs
CurrentClustered ==
    clustered_data_fn(
        filtered_data_fn(data, input.happiness_range, input.gdp_range),
        input.n_clusters, input.cluster_features)

\* C4: whatever changes were made to the two ranges, the cluster count and
\* the feature selection, the value a read of clustered_data returns is a
\* result for their current values; a clustered view that is up to date
\* rests on a filtered view that is up to date.
C4_ClusteredCurrent ==
    /\ cache["clustered_data"] # <<>> =>
          cache["clustered_data"][1] \in CurrentClustered
    /\ \A o \in {"cluster_3d_plot", "cluster_table"} :
          (stack[o] # <<>> /\ stack[o][1].got # <<>>) =>
             stack[o][1].got[1] \in CurrentClustered
    /\ Status("clustered_data") \in {"Cached", "Error"} =>
          /\ Status("filtered_data") = "Cached"
          /\ cache["filtered_data"][1].df =
                filtered_data_fn(data, input.happiness_range, input.gdp_range)

\* all four inputs differ from their initial values and cluster_table has
\* rendered a clustering of the rows now selected
C4_Witness ==
    /\ input.happiness_range # <<1, 1>>
    /\ input.gdp_range # <<1, 1>>
    /\ input.n_clusters # MaxK
    /\ input.cluster_features # <<"ladder", "gdp">>
    /\ ~pending["cluster_table"]
    /\ cache["clustered_data"] # <<>>
    /\ cache["clustered_data"][1].error = ""
    /\ Len(cache["clustered_data"][1].df) < Len(data)

\* the run of view v on the current inputs raises
Raises(v) ==
    CASE v = "clustered_data" -> \A r \in CurrentClustered : r.error # ""
      [] v = "searched_data" ->
            searched_data_fn(data, input.country_search).error # ""
      [] OTHER -> FALSE

\* C5: a view whose function raised is in the Error state, not Cached; while
\* no upstream input changes it stays there with the same stored error, every
\* reader is shown that error and the function has run once; an upstream
\* change makes it Stale, and a Stale view is left only by running again.
C5_ErrorSticky ==
    /\ [](\A v \in Views :
            /\ Status(v) = "Error" => execs[v] = 1 /\ Raises(v)
            /\ Status(v) = "Cached" /\ cache[v] # <<>> => ~Raises(v)
            /\ \A o \in Outputs :
                  (v \in ViewRead(o) /\ ~pending[o] /\ Status(v) = "Error") =>
                     out[o][1].error = cache[v][1].error)
    /\ [][\A v \in Views :
            /\ Status(v) = "Error" =>
                  IF \E i \in UpstreamInputs(v) : input'[i] # input[i]
                  THEN Status(v)' = "Stale" /\ execs'[v] = 0
                  ELSE Status(v)' = "Error" /\ cache'[v] = cache[v]
                       /\ execs'[v] = execs[v]
            /\ (Status(v) = "Stale" /\ Status(v)' # "Stale") =>
                  Status(v)' = "Computing" /\ execs'[v] = execs[v] + 1]_vars

\* clustered_data raised, both of its readers were shown the error, and it
\* ran once
C5_Witness ==
    /\ Status("clustered_data") = "Error"
    /\ ~pending["cluster_3d_plot"] /\ out["cluster_3d_plot"][1].error = ValueError
    /\ ~pending["cluster_table"] /\ out["cluster_table"][1].error = ValueError
    /\ reads["clustered_data"] >= 2
    /\ execs["clustered_data"] = 1

\* C6: at most one run of a view is in flight at any time, and once both
\* readers of clustered_data have rendered, the view has run once for them.
C6_OneInFlight ==
    /\ \A v \in Views : InFlight(v) <= 1
    /\ (~pending["cluster_3d_plot"] /\ ~pending["cluster_table"]) =>
          execs["clustered_data"] = 1

\* clustered_data is running for one of its readers while the other reader
\* is invalidated and waits
C6_Witness ==
    /\ InFlight("clustered_data") = 1
    /\ \E o, p \in {"cluster_3d_plot", "cluster_table"} :
          /\ o # p
          /\ stack[o] # <<>>
          /\ pending[p] /\ stack[p] = <<>>

\* C8: for any number of selected features from 1 upward the 3-D plot is
\* built without error from the standardized matrix: x, y, z are its first
\* three columns, the first column standing in for each missing one.
C8_PlotBuilds ==
    (~pending["cluster_3d_plot"] /\ cache["clustered_data"] # <<>>
     /\ cache["clustered_data"][1].error = "") =>
        LET X == cache["clustered_data"][1].X_scaled
            fig == out["cluster_3d_plot"][1]
            axis(j) == IF Shape1(X) > j THEN Column(X, j) ELSE Column(X, 0)
        IN  /\ fig.error = ""
            /\ fig.x = axis(0)
            /\ fig.y = axis(1)
            /\ fig.z = axis(2)

\* the columns of a model table's rows
BaseColumns == {"idx", "name", "num"}

\* the tables load_data returns for the raw tables of a session
LoadedTables == {load_data(csv) : csv \in SessionCsvTables}

\* the step is the return of a run of view v (its recomputation ends)
Returning(v) ==
    \E o \in Outputs :
       /\ Len(stack[o]) >= 2
       /\ Top(o).node = v
       /\ Len(stack'[o]) = Len(stack[o]) - 1

\* C11: every recomputation of a view leaves the Base Table and every other
\* view's cached value unchanged: in every state data is the table load_data
\* returned and no step changes it, the rows stored for filtered_data (and
\* for searched_data) carry only the columns of data, never the Cluster and
\* Cluster_Name columns clustered_data adds to its own copy, and the step
\* that ends a run of a view changes no other view's stored result.
C11_FrameOfRecomputation ==
    /\ [](/\ data \in LoadedTables
          /\ \A i \in DOMAIN data : DOMAIN data[i] = BaseColumns
          /\ \A w \in {"filtered_data", "searched_data"} :
                cache[w] # <<>> =>
                   \A i \in DOMAIN cache[w][1].df :
                      DOMAIN cache[w][1].df[i] = BaseColumns)
    /\ [][/\ data' = data
          /\ \A v \in Views : Returning(v) =>
                \A w \in Views \ {v} : cache'[w] = cache[w]]_vars

\* after input changes clustered_data has been recomputed with success on
\* two or more rows, its own rows carry the two added columns, and the
\* result of filtered_data it read is still stored
C11_Witness ==
    /\ input.happiness_range # <<1, 1>>
    /\ input.n_clusters # MaxK
    /\ Status("clustered_data") = "Cached" /\ cache["clustered_data"] # <<>>
    /\ Len(cache["clustered_data"][1].df) >= 2
    /\ \A i \in DOMAIN cache["clustered_data"][1].df :
          DOMAIN cache["clustered_data"][1].df[i] =
             BaseColumns \cup {"Cluster", "Cluster_Name"}
    /\ Status("filtered_data") = "Cached" /\ cache["filtered_data"] # <<>>
    /\ Len(cache["filtered_data"][1].df) >= 2
    /\ ~pending["cluster_table"] /\ ~pending["scatter_plot"]

====
